---- MODULE Spec2Model ----
(***************************************************************************)
(* A state-machine model of neuroHarmonize/harmonizationLearn.py:          *)
(* harmonizationLearn, StandardizeAcrossFeatures and                       *)
(* saveHarmonizationModel.  Numeric arrays are sequences of rows.  The     *)
(* results of the numerical routines (least squares, additive-model fits,  *)
(* empirical-Bayes estimates) are kept as terms that record the arguments  *)
(* each routine was given, so that what is computed from what, and in      *)
(* which shape, is explicit.                                               *)
(***************************************************************************)
EXTENDS Integers, Sequences, FiniteSets, TLC

(* ------------------------------ bounds -------------------------------- *)
MaxSamples == 3
MaxFeatures == 2
MaxRuns == 2
MaxSaves == 2
\* columns of the spline basis per smooth term kept by the model (the
\* library derives the real number from df = 10, degree = 3)
BasisDim == 2

(* ------------------------------ helpers ------------------------------- *)
Range(s) == {s[k] : k \in DOMAIN s}

Min(S) == CHOOSE m \in S : \A x \in S : m <= x

RECURSIVE SortedSeq(_)
SortedSeq(S) == IF S = {} THEN <<>> ELSE <<Min(S)>> \o SortedSeq(S \ {Min(S)})

\* position (1-based) of v in the sequence s, 0 when absent
IndexOf(s, v) == IF v \in Range(s) THEN Min({k \in DOMAIN s : s[k] = v}) ELSE 0

RECURSIVE Flatten(_)
Flatten(ss) == IF ss = <<>> THEN <<>> ELSE Head(ss) \o Flatten(Tail(ss))

\* s filtered by membership in S, order kept
RECURSIVE Keep(_, _)
Keep(s, S) ==
    IF s = <<>> THEN <<>>
    ELSE (IF Head(s) \in S THEN <<Head(s)>> ELSE <<>>) \o Keep(Tail(s), S)

(* --------------------------- numpy arrays ----------------------------- *)
\* a 2-D array is a non-empty sequence of rows of equal, non-zero length
NRows(m) == Len(m)
NCols(m) == Len(m[1])
Shape(m) == <<NRows(m), NCols(m)>>

\* ndarray.T of a 2-D array
Transpose(m) == [c \in 1..NCols(m) |-> [r \in 1..NRows(m) |-> m[r][c]]]

\* m[:, c] with a 0-based column index c
Column(m, c) == [r \in 1..NRows(m) |-> m[r][c + 1]]

\* np.concatenate((a, b), axis=1)
HConcat(a, b) == [r \in 1..NRows(a) |-> a[r] \o b[r]]

\* the shape of np.dot(a, b) for 2-D operands; <<0, 0>> when numpy raises
DotShape(a, b) == IF a[2] = b[1] /\ a # <<0, 0>> /\ b # <<0, 0>>
                  THEN <<a[1], b[2]>> ELSE <<0, 0>>

TShape(a) == <<a[2], a[1]>>

BDim(x, y) == IF x = y THEN x ELSE IF x = 1 THEN y ELSE IF y = 1 THEN x ELSE 0

\* the shape of an elementwise operation under numpy broadcasting
BroadcastShape(a, b) ==
    IF a = <<0, 0>> \/ b = <<0, 0>> \/ BDim(a[1], b[1]) = 0 \/ BDim(a[2], b[2]) = 0
    THEN <<0, 0>> ELSE <<BDim(a[1], b[1]), BDim(a[2], b[2])>>

\* np.unique(v, return_inverse=True): the sorted distinct values and, for
\* every element of v, the 0-based position of its value among them
UniqueLevels(v) == SortedSeq(Range(v))
UniqueInverse(v) == [k \in DOMAIN v |-> IndexOf(UniqueLevels(v), v[k]) - 1]
UniqueCounts(v) ==
    [l \in DOMAIN UniqueLevels(v) |->
        Cardinality({k \in DOMAIN v : v[k] = UniqueLevels(v)[l]})]

\* positions whose value is at least idx
WhereAtLeast(v, idx) == SortedSeq({k - 1 : k \in {j \in DOMAIN v : v[j] >= idx}})

\* list(np.where(v == idx)[0]): ascending 0-based positions
WhereEqual(v, idx) == SortedSeq({k - 1 : k \in {j \in DOMAIN v : v[j] = idx}})

(* ------------------------------ inputs -------------------------------- *)
SiteLabels == {10, 20}

Layouts == { <<"SITE">>, <<"SITE", "AGE">>, <<"AGE", "SITE">>,
             <<"AGE", "SITE", "SEX">>, <<"AGE", "SEX">> }

\* the value of a numeric covariate for the n-th sample
CovariateValue(c, n) == IF c = "AGE" THEN 3 + n ELSE n % 2

\* the caller's data matrix: rows x features, every cell distinct
DataMatrix(rows, feats) == [n \in 1..rows |-> [f \in 1..feats |-> 10 * n + f]]

\* the caller's covariate table (a DataFrame): column names and rows
CovarTable(cols, labels) ==
    [columns |-> cols,
     values  |-> [n \in DOMAIN labels |->
                    [k \in DOMAIN cols |->
                        IF cols[k] = "SITE" THEN labels[n]
                        ELSE CovariateValue(cols[k], n)]]]

\* smooth_terms: any choice among the non-SITE columns, in column order
SmoothChoices(cols) == {Keep(cols, S) : S \in SUBSET (Range(cols) \ {"SITE"})}

\* the folder names the caller saves to, and those on disk beforehand
Folders == {"m1", "m2"}
ExistingFolders == {"m2"}

(* ------------------------------- state -------------------------------- *)
VARIABLES
    given,          \* the arguments as the caller first built them
    caller,         \* the caller's objects: data, covars, smooth_terms
    pc, err, runs, returned,
    \* locals of harmonizationLearn
    data, covars, batch_col, num_cols, smooth_cols, smooth_model, info_dict,
    design, design_arg, LS_dict, gamma_star, delta_star, bayes_data, model,
    \* locals of StandardizeAcrossFeatures
    saf_design, alpha, i, gam_bs, res_bs, res_bs_optim, B_hat,
    grand_mean, var_pooled, stand_mean, s_data,
    \* the file system and the calls of saveHarmonizationModel
    fs, saves, lastSave

learnVars == <<data, covars, batch_col, num_cols, smooth_cols, smooth_model,
               info_dict, design, design_arg, LS_dict, gamma_star, delta_star,
               bayes_data, model>>
safVars == <<saf_design, alpha, i, gam_bs, res_bs, res_bs_optim, B_hat,
             grand_mean, var_pooled, stand_mean, s_data>>
saveVars == <<fs, saves, lastSave>>
vars == <<given, caller, pc, err, runs, returned, learnVars, safVars, saveVars>>

(* ------------------------- values before assignment ------------------- *)
NoTable == [names |-> <<>>, cols |-> <<>>]
NoSplines == [x |-> <<>>, df |-> <<>>, degree |-> <<>>, basis |-> <<>>]
NoArray == [shape |-> <<0, 0>>, design |-> <<>>]
NoGam == [formula |-> "", endog |-> <<>>, exog |-> <<>>, alpha |-> <<>>, nfit |-> 0]
NoParams == [estimator |-> "none", endog |-> <<>>, alpha |-> <<>>, nparams |-> 0]
NoInfo == [batch_levels |-> <<>>, n_batch |-> 0, n_sample |-> 0,
           sample_per_batch |-> <<>>, batch_info |-> <<>>]
NoSmoothModel ==
    [perform_smoothing |-> FALSE, smooth_terms |-> <<>>, smooth_cols |-> <<>>,
     bsplines_constructor |-> NoSplines, smooth_design |-> <<>>,
     formula |-> "", df_gam |-> NoTable]
NoDesignArg == [StandardizeAcrossFeatures |-> <<>>,
                fit_LS_model_and_find_priors |-> <<>>,
                adjust_data_final |-> <<>>]
NoModel == [keys |-> <<>>, design |-> <<>>, s_data |-> <<>>, stand_mean |-> NoArray,
            var_pooled |-> NoArray, B_hat |-> <<>>, grand_mean |-> NoArray,
            gamma_star |-> NoArray, delta_star |-> NoArray, n_batch |-> 0]

\* a fresh frame: every local but data, which the first statement assigns
FreshFrame ==
    /\ covars' = [base |-> "none", values |-> <<>>]
    /\ batch_col' = -1 /\ num_cols' = <<>> /\ smooth_cols' = <<>>
    /\ smooth_model' = NoSmoothModel /\ info_dict' = NoInfo
    /\ design' = <<>> /\ design_arg' = NoDesignArg /\ LS_dict' = NoArray
    /\ gamma_star' = NoArray /\ delta_star' = NoArray
    /\ bayes_data' = <<>> /\ model' = NoModel
    /\ saf_design' = <<>> /\ alpha' = <<>> /\ i' = 0
    /\ gam_bs' = NoGam /\ res_bs' = NoParams /\ res_bs_optim' = NoParams
    /\ B_hat' = <<>> /\ grand_mean' = NoArray /\ var_pooled' = NoArray
    /\ stand_mean' = NoArray /\ s_data' = <<>>

Init ==
    /\ \E n \in 1..MaxSamples, feats \in 1..MaxFeatures, cols \in Layouts :
       \E labels \in [1..n -> SiteLabels], rows \in {n, (n % MaxSamples) + 1},
          st \in SmoothChoices(cols) :
            given = [data |-> DataMatrix(rows, feats),
                     covars |-> CovarTable(cols, labels),
                     smooth_terms |-> st]
    /\ caller = given
    /\ pc = "idle" /\ err = "" /\ runs = 0 /\ returned = <<>>
    /\ data = <<>> /\ covars = [base |-> "none", values |-> <<>>]
    /\ batch_col = -1 /\ num_cols = <<>> /\ smooth_cols = <<>>
    /\ smooth_model = NoSmoothModel /\ info_dict = NoInfo
    /\ design = <<>> /\ design_arg = NoDesignArg /\ LS_dict = NoArray
    /\ gamma_star = NoArray /\ delta_star = NoArray
    /\ bayes_data = <<>> /\ model = NoModel
    /\ saf_design = <<>> /\ alpha = <<>> /\ i = 0
    /\ gam_bs = NoGam /\ res_bs = NoParams /\ res_bs_optim = NoParams
    /\ B_hat = <<>> /\ grand_mean = NoArray /\ var_pooled = NoArray
    /\ stand_mean = NoArray /\ s_data = <<>>
    /\ fs = [f \in Folders |->
               IF f \in ExistingFolders
               THEN [exists |-> TRUE,
                     files |-> [n \in {"notes.txt"} |->
                                  [stamp |-> 0, content |-> NoArray]]]
               ELSE [exists |-> FALSE, files |-> << >>]]
    /\ saves = 0
    /\ lastSave = [fldr_name |-> "", raised |-> ""]

(* ------------------------- harmonizationLearn ------------------------- *)
\* a lookup that finds no column of the name falls back to the first column
GetLocOrFirst(columns, name) ==
    IF name \in Range(columns) THEN IndexOf(columns, name) - 1 ELSE 0

\* covars.columns.get_loc(name): 0-based position of the column; -1 stands
\* for the KeyError the lookup raises when no column has the name
GetLoc(columns, name) == IndexOf(columns, name) - 1

\* line 44: positions of the columns other than SITE, in column order
NumCols(columns) ==
    Flatten([k \in DOMAIN columns |->
               IF columns[k] # "SITE" THEN <<GetLoc(columns, columns[k])>> ELSE <<>>])

\* line 45: positions of the columns named in smooth_terms, in column order
SmoothCols(columns, terms) ==
    Flatten([k \in DOMAIN columns |->
               IF columns[k] \in Range(terms)
               THEN <<GetLoc(columns, columns[k])>> ELSE <<>>])

\* line 40 and the fresh frame of a call
Call ==
    /\ pc \in {"idle", "raised"}
    /\ runs < MaxRuns
    /\ runs' = runs + 1
    /\ err' = ""
    /\ FreshFrame
    /\ data' = Transpose(caller.data)
    /\ pc' = "prep"
    /\ UNCHANGED <<given, caller, returned, saveVars>>

\* lines 42-55
Prep ==
    /\ pc = "prep"
    /\ IF GetLoc(caller.covars.columns, "SITE") < 0
       THEN /\ err' = "KeyError"
            /\ pc' = "raised"
            /\ UNCHANGED <<batch_col, num_cols, smooth_cols, smooth_model>>
       ELSE /\ batch_col' = GetLoc(caller.covars.columns, "SITE")
            /\ num_cols' = NumCols(caller.covars.columns)
            /\ smooth_cols' = SmoothCols(caller.covars.columns, caller.smooth_terms)
            /\ smooth_model' =
                 [NoSmoothModel EXCEPT
                    !.perform_smoothing = Len(caller.smooth_terms) > 0,
                    !.smooth_terms = caller.smooth_terms,
                    !.smooth_cols = smooth_cols']
            /\ pc' = "array"
            /\ err' = err
    /\ UNCHANGED <<given, caller, runs, returned, data, covars, info_dict, design,
                   design_arg, LS_dict, gamma_star, delta_star, bayes_data, model,
                   safVars, saveVars>>

\* an array that is a view of the table's own buffer
NpArrayShared(table) == [base |-> "caller", values |-> table.values]

\* line 56: np.array(covars, dtype='object') builds a new array
NpArrayObject(table) == [base |-> "own", values |-> table.values]

\* line 59: the batch column replaced by the 0-based codes of its labels
EncodeBatch(values, col) ==
    [n \in DOMAIN values |->
        [values[n] EXCEPT ![col + 1] = UniqueInverse(Column(values, col))[n]]]

\* lines 56-59; a write to an array that shares the caller's buffer would
\* reach the caller's table
ToArray ==
    /\ pc = "array"
    /\ LET arr == NpArrayObject(caller.covars)
           enc == EncodeBatch(arr.values, batch_col)
       IN /\ covars' = [arr EXCEPT !.values = enc]
          /\ caller' = IF arr.base = "caller"
                       THEN [caller EXCEPT !.covars.values = enc]
                       ELSE caller
    /\ pc' = "info"
    /\ UNCHANGED <<given, err, runs, returned, data, batch_col, num_cols,
                   smooth_cols, smooth_model, info_dict, design, design_arg,
                   LS_dict, gamma_star, delta_star, bayes_data, model,
                   safVars, saveVars>>

\* lines 61-68
InfoDict(values, col) ==
    LET batch == Column(values, col)
        batch_levels == UniqueLevels(batch)
    IN [batch_levels |-> batch_levels,
        n_batch |-> Len(batch_levels),
        n_sample |-> NRows(values),
        sample_per_batch |-> UniqueCounts(batch),
        batch_info |-> [l \in DOMAIN batch_levels |->
                          WhereEqual(batch, batch_levels[l])]]

Info ==
    /\ pc = "info"
    /\ info_dict' = InfoDict(covars.values, batch_col)
    /\ pc' = "design"
    /\ UNCHANGED <<given, caller, err, runs, returned, data, covars, batch_col,
                   num_cols, smooth_cols, smooth_model, design, design_arg,
                   LS_dict, gamma_star, delta_star, bayes_data, model,
                   safVars, saveVars>>

\* neuroCombat.make_design_matrix: one-hot columns of the batch codes in
\* ascending order, then one column per numeric covariate in the order given
make_design_matrix(Y, bcol, ncols) ==
    LET batch == UniqueInverse(Column(Y, bcol))
        nb == Len(UniqueLevels(batch))
    IN [n \in DOMAIN Y |->
          [b \in 1..nb |-> IF batch[n] = b - 1 THEN 1 ELSE 0]
          \o [k \in DOMAIN ncols |-> Y[n][ncols[k] + 1]]]

\* line 70
Design ==
    /\ pc = "design"
    /\ design' = make_design_matrix(covars.values, batch_col, num_cols)
    /\ pc' = "smooth"
    /\ UNCHANGED <<given, caller, err, runs, returned, data, covars, batch_col,
                   num_cols, smooth_cols, smooth_model, info_dict, design_arg,
                   LS_dict, gamma_star, delta_star, bayes_data, model,
                   safVars, saveVars>>

(* ---------------------- smoothing preprocessor ------------------------ *)
\* an ordered table of named columns (a dict of columns, a DataFrame)
TableSet(t, name, col) ==
    IF name \in Range(t.names)
    THEN [t EXCEPT !.cols[IndexOf(t.names, name)] = col]
    ELSE [names |-> Append(t.names, name), cols |-> Append(t.cols, col)]

TableColumn(t, name) == t.cols[IndexOf(t.names, name)]

TableRows(t) == [n \in 1..Len(t.cols[1]) |-> [k \in DOMAIN t.cols |-> t.cols[k][n]]]

\* the value of the j-th basis function of the k-th smooth term at x
BasisValue(x, k, j) == 1000 * k + 10 * x + j

\* line 75: BSplines(X_spline, df=[10]*k, degree=[3]*k) and its basis
BSplines(X_spline) ==
    [x |-> X_spline,
     df |-> [k \in 1..NCols(X_spline) |-> 10],
     degree |-> [k \in 1..NCols(X_spline) |-> 3],
     basis |-> [n \in 1..NRows(X_spline) |->
                  Flatten([k \in 1..NCols(X_spline) |->
                             [j \in 1..BasisDim |-> BasisValue(X_spline[n][k], k, j)]])]]

\* lines 79-81: one term and one table column per batch level
RECURSIVE BatchTerms(_, _, _, _)
BatchTerms(levels, dsg, formula, df_gam) ==
    IF levels = <<>> THEN [formula |-> formula, df_gam |-> df_gam]
    ELSE LET b == Head(levels)
         IN BatchTerms(Tail(levels), dsg,
                       formula \o "x" \o ToString(b) \o " + ",
                       TableSet(df_gam, "x" \o ToString(b), Column(dsg, b)))

\* a term for every numeric column, smoothed or not
RECURSIVE CovariateTermsAll(_, _, _, _, _)
CovariateTermsAll(ncols, scols, values, formula, df_gam) ==
    IF ncols = <<>> THEN [formula |-> formula, df_gam |-> df_gam]
    ELSE LET c == Head(ncols)
         IN CovariateTermsAll(Tail(ncols), scols, values,
                              formula \o "c" \o ToString(c) \o " + ",
                              TableSet(df_gam, "c" \o ToString(c), Column(values, c)))

\* lines 82-85: one term and one table column per numeric column not smoothed
RECURSIVE CovariateTerms(_, _, _, _, _)
CovariateTerms(ncols, scols, values, formula, df_gam) ==
    IF ncols = <<>> THEN [formula |-> formula, df_gam |-> df_gam]
    ELSE LET c == Head(ncols)
         IN IF c \notin Range(scols)
            THEN CovariateTerms(Tail(ncols), scols, values,
                                formula \o "c" \o ToString(c) \o " + ",
                                TableSet(df_gam, "c" \o ToString(c), Column(values, c)))
            ELSE CovariateTerms(Tail(ncols), scols, values, formula, df_gam)

\* line 86: formula[:-2] + '- 1'
CloseFormula(formula) == SubSeq(formula, 1, Len(formula) - 2) \o "- 1"

\* lines 74-94
BuildSmoothModel(sm, values, dsg, levels, ncols, scols) ==
    LET X_spline == [n \in DOMAIN values |->
                       [k \in DOMAIN scols |-> values[n][scols[k] + 1]]]
        bs == BSplines(X_spline)
        t1 == BatchTerms(levels, dsg, "y ~ ", NoTable)
        t2 == CovariateTerms(ncols, scols, values, t1.formula, t1.df_gam)
    IN [sm EXCEPT !.bsplines_constructor = bs,
                  !.formula = CloseFormula(t2.formula),
                  !.df_gam = t2.df_gam,
                  !.smooth_design = HConcat(TableRows(t2.df_gam), bs.basis)]

\* lines 72-94
Smooth ==
    /\ pc = "smooth"
    /\ smooth_model' =
         IF smooth_model.perform_smoothing
         THEN BuildSmoothModel(smooth_model, covars.values, design,
                               info_dict.batch_levels, num_cols, smooth_cols)
         ELSE smooth_model
    /\ pc' = "standardize"
    /\ UNCHANGED <<given, caller, err, runs, returned, data, covars, batch_col,
                   num_cols, smooth_cols, info_dict, design, design_arg,
                   LS_dict, gamma_star, delta_star, bayes_data, model,
                   safVars, saveVars>>

(* --------------------- StandardizeAcrossFeatures ---------------------- *)
\* the formula read the way the model library reads it: blank-separated
\* tokens, the response before '~', then terms joined by '+', and '- 1'
\* removing the intercept
RECURSIVE Tokens(_, _)
Tokens(str, cur) ==
    IF Len(str) = 0 THEN (IF cur = "" THEN <<>> ELSE <<cur>>)
    ELSE IF SubSeq(str, 1, 1) = " "
         THEN (IF cur = "" THEN <<>> ELSE <<cur>>) \o Tokens(SubSeq(str, 2, Len(str)), "")
         ELSE Tokens(SubSeq(str, 2, Len(str)), cur \o SubSeq(str, 1, 1))

FormulaResponse(formula) == Tokens(formula, "")[1]

FormulaTerms(formula) ==
    LET t == Tokens(formula, "")
    IN Flatten([k \in DOMAIN t |->
                  IF k >= 3 /\ t[k] \notin {"+", "-"} /\ t[k - 1] \in {"~", "+"}
                  THEN <<t[k]>> ELSE <<>>])

FormulaHasIntercept(formula) ==
    LET t == Tokens(formula, "")
    IN ~ \E k \in DOMAIN t : k >= 2 /\ t[k] = "1" /\ t[k - 1] = "-"

\* line 140: GLMGam.from_formula(formula, data=df_gam, smoother=bs, alpha=alpha)
FromFormula(formula, df_gam, bs, a) ==
    LET terms == FormulaTerms(formula)
        linear == [n \in 1..Len(df_gam.cols[1]) |->
                     (IF FormulaHasIntercept(formula) THEN <<1>> ELSE <<>>)
                     \o [k \in DOMAIN terms |-> TableColumn(df_gam, terms[k])[n]]]
    IN [formula |-> formula,
        endog |-> TableColumn(df_gam, FormulaResponse(formula)),
        exog |-> HConcat(linear, bs.basis),
        alpha |-> a,
        nfit |-> 0]

\* gam_bs.fit(): the coefficients are those of this response, this design
\* and the penalty weights the model holds when it is fitted
FitParams(gam) == [estimator |-> "gam", endog |-> gam.endog,
                   alpha |-> gam.alpha, nparams |-> NCols(gam.exog)]

\* line 134: np.array([1.0] * len(smooth_cols))
InitialAlpha(scols) == [k \in DOMAIN scols |-> [weight |-> "1.0", selected_for |-> <<>>]]

\* gam_bs.select_penweight()[0]: the weights the search selects for the
\* model's response, one per smooth term
SelectPenweight(gam) ==
    [k \in DOMAIN gam.alpha |-> [weight |-> "gcv", selected_for |-> gam.endog]]

\* line 147: the least-squares coefficients, one column per feature
LeastSquares(dsg, X) ==
    [f \in 1..NRows(X) |-> [estimator |-> "ols", endog |-> X[f],
                            alpha |-> <<>>, nparams |-> NCols(dsg)]]

\* line 136: np.zeros((design.shape[1], X.shape[0]))
ZeroCoefficients(dsg, X) ==
    [f \in 1..NRows(X) |-> [estimator |-> "zeros", endog |-> <<>>,
                            alpha |-> <<>>, nparams |-> NCols(dsg)]]

\* the design argument kept even when smoothing is active
StandardizeDesignLinear(dsg, sm) == dsg

\* the design StandardizeAcrossFeatures computes with (lines 123-125)
StandardizeDesign(dsg, sm) == IF sm.perform_smoothing THEN sm.smooth_design ELSE dsg

\* lines 97, 118-136 and 147: entry, then either the loop set-up or the
\* closed-form solve (which raises when the shapes do not fit or the
\* inversion fails)
Standardize ==
    /\ pc = "standardize"
    /\ design_arg' = [design_arg EXCEPT !.StandardizeAcrossFeatures =
                                          StandardizeDesign(design, smooth_model)]
    /\ saf_design' = StandardizeDesign(design, smooth_model)
    /\ IF smooth_model.perform_smoothing
       THEN /\ alpha' = InitialAlpha(smooth_model.smooth_cols)
            /\ B_hat' = ZeroCoefficients(saf_design', data)
            /\ i' = 0
            /\ pc' = "gam_y"
            /\ err' = err
       ELSE /\ UNCHANGED <<alpha, i>>
            /\ IF NRows(design) # NCols(data)
               THEN /\ err' = "ValueError" /\ pc' = "raised" /\ B_hat' = B_hat
               ELSE \E singular \in BOOLEAN :
                      IF singular
                      THEN /\ err' = "LinAlgError" /\ pc' = "raised" /\ B_hat' = B_hat
                      ELSE /\ B_hat' = LeastSquares(design, data)
                           /\ pc' = "saf_finish" /\ err' = err
    /\ UNCHANGED <<given, caller, runs, returned, data, covars, batch_col,
                   num_cols, smooth_cols, smooth_model, info_dict, design,
                   LS_dict, gamma_star, delta_star, bayes_data, model,
                   gam_bs, res_bs, res_bs_optim, grand_mean, var_pooled,
                   stand_mean, s_data, saveVars>>

\* the response written over the first column of the table
SetResponseFirst(df_gam, y) == [df_gam EXCEPT !.cols[1] = y]

\* line 139: df_gam.loc[:, 'y'] = X[i, :]; df_gam is the table the smoothing
\* model holds
SetResponse(df_gam, y) == TableSet(df_gam, "y", y)

GamSetResponse ==
    /\ pc = "gam_y"
    /\ IF i >= NRows(data)
       THEN /\ pc' = "saf_finish"
            /\ UNCHANGED <<err, smooth_model>>
       ELSE IF Len(data[i + 1]) # Len(smooth_model.df_gam.cols[1])
            THEN /\ err' = "ValueError" /\ pc' = "raised"
                 /\ UNCHANGED smooth_model
            ELSE /\ smooth_model' =
                      [smooth_model EXCEPT
                         !.df_gam = SetResponse(smooth_model.df_gam, data[i + 1])]
                 /\ pc' = "gam_fit"
                 /\ err' = err
    /\ UNCHANGED <<given, caller, runs, returned, data, covars, batch_col,
                   num_cols, smooth_cols, info_dict, design, design_arg,
                   LS_dict, gamma_star, delta_star, bayes_data, model,
                   safVars, saveVars>>

\* lines 140-141 (the fit may fail inside the library)
GamFit ==
    /\ pc = "gam_fit"
    /\ \E fails \in BOOLEAN :
         IF fails
         THEN /\ err' = "FitError" /\ pc' = "raised"
              /\ UNCHANGED <<gam_bs, res_bs>>
         ELSE LET g == FromFormula(smooth_model.formula, smooth_model.df_gam,
                                   smooth_model.bsplines_constructor, alpha)
              IN /\ gam_bs' = [g EXCEPT !.nfit = 1]
                 /\ res_bs' = FitParams(g)
                 /\ pc' = "gam_select"
                 /\ err' = err
    /\ UNCHANGED <<given, caller, runs, returned, learnVars, saf_design, alpha, i,
                   res_bs_optim, B_hat, grand_mean, var_pooled, stand_mean,
                   s_data, saveVars>>

\* line 143
GamSelect ==
    /\ pc = "gam_select"
    /\ gam_bs' = [gam_bs EXCEPT !.alpha = SelectPenweight(gam_bs)]
    /\ pc' = "gam_refit"
    /\ UNCHANGED <<given, caller, err, runs, returned, learnVars, saf_design,
                   alpha, i, res_bs, res_bs_optim, B_hat, grand_mean, var_pooled,
                   stand_mean, s_data, saveVars>>

\* line 144
GamRefit ==
    /\ pc = "gam_refit"
    /\ res_bs_optim' = FitParams(gam_bs)
    /\ gam_bs' = [gam_bs EXCEPT !.nfit = gam_bs.nfit + 1]
    /\ pc' = "gam_store"
    /\ UNCHANGED <<given, caller, err, runs, returned, learnVars, saf_design,
                   alpha, i, res_bs, B_hat, grand_mean, var_pooled,
                   stand_mean, s_data, saveVars>>

\* the coefficients of the initial fit stored instead of the refit's
StoreInitialFit(B, idx, res_first, res_optim) == [B EXCEPT ![idx + 1] = res_first]

\* line 145: B_hat[:, i] = res_bs_optim.params
StoreColumn(B, idx, res_first, res_optim) == [B EXCEPT ![idx + 1] = res_optim]

GamStore ==
    /\ pc = "gam_store"
    /\ IF res_bs_optim.nparams # B_hat[i + 1].nparams
       THEN /\ err' = "ValueError" /\ pc' = "raised"
            /\ UNCHANGED <<B_hat, i>>
       ELSE /\ B_hat' = StoreColumn(B_hat, i, res_bs, res_bs_optim)
            /\ i' = i + 1
            /\ pc' = "gam_y"
            /\ err' = err
    /\ UNCHANGED <<given, caller, runs, returned, learnVars, saf_design, alpha,
                   gam_bs, res_bs, res_bs_optim, grand_mean, var_pooled,
                   stand_mean, s_data, saveVars>>

\* lines 148-158: the shapes every product, difference and quotient has
\* under numpy's rules; <<0, 0>> marks an operation numpy refuses
StandardizeShapes(X, dsg, B, info) ==
    LET bShape == <<B[1].nparams, Len(B)>>
        xShape == Shape(X)
        gmLen == IF info.n_batch <= bShape[1] THEN bShape[2] ELSE 0
        fitted == TShape(DotShape(Shape(dsg), bShape))
        vp == DotShape(BroadcastShape(xShape, fitted), <<info.n_sample, 1>>)
        sm0 == IF gmLen = 0 THEN <<0, 0>> ELSE DotShape(<<gmLen, 1>>, <<1, info.n_sample>>)
        sm == IF BroadcastShape(sm0, fitted) = sm0 THEN sm0 ELSE <<0, 0>>
        sd == BroadcastShape(BroadcastShape(xShape, sm),
                             DotShape(vp, <<1, info.n_sample>>))
    IN [grand_mean |-> IF gmLen = 0 THEN <<0, 0>> ELSE <<gmLen>>,
        var_pooled |-> vp, stand_mean |-> sm, s_data |-> sd]

\* line 156: the standardized value of every cell of X
StandardizedData(X, shape) ==
    [f \in 1..shape[1] |->
       [n \in 1..shape[2] |->
          [x |-> X[IF NRows(X) = 1 THEN 1 ELSE f][IF NCols(X) = 1 THEN 1 ELSE n],
           stage |-> "standardized"]]]

StandardizeFinish ==
    /\ pc = "saf_finish"
    /\ LET sh == StandardizeShapes(data, saf_design, B_hat, info_dict)
       IN IF <<0, 0>> \in {sh.grand_mean, sh.var_pooled, sh.stand_mean, sh.s_data}
          THEN /\ err' = "ValueError" /\ pc' = "raised"
               /\ UNCHANGED <<grand_mean, var_pooled, stand_mean, s_data>>
          ELSE /\ grand_mean' = [shape |-> sh.grand_mean, design |-> <<>>]
               /\ var_pooled' = [shape |-> sh.var_pooled, design |-> saf_design]
               /\ stand_mean' = [shape |-> sh.stand_mean, design |-> saf_design]
               /\ s_data' = StandardizedData(data, sh.s_data)
               /\ pc' = "priors"
               /\ err' = err
    /\ UNCHANGED <<given, caller, runs, returned, learnVars, saf_design, alpha, i,
                   gam_bs, res_bs, res_bs_optim, B_hat, saveVars>>

(* ------------------- harmonizationLearn, lines 99-108 ----------------- *)
\* neuroCombat.fit_LS_model_and_find_priors: per-site estimates and priors
fit_LS_model_and_find_priors(sdat, dsg, info) ==
    [shape |-> <<info.n_batch, NRows(sdat)>>, design |-> dsg]

\* neuroCombat.find_parametric_adjustments: one row per site, one column
\* per feature
find_parametric_adjustments(sdat, LS, info) ==
    [shape |-> <<info.n_batch, NRows(sdat)>>, design |-> LS.design]

\* neuroCombat.adjust_data_final: the harmonized value of every cell, in
\* the shape of s_data
adjust_data_final(sdat, dsg, gstar, dstar, smean, vpooled, info) ==
    [f \in DOMAIN sdat |->
       [n \in DOMAIN sdat[f] |-> [x |-> sdat[f][n].x, stage |-> "harmonized"]]]

\* the design harmonizationLearn hands to the steps after standardization
DownstreamDesign(dsg, sm) == dsg

\* line 99
Priors ==
    /\ pc = "priors"
    /\ LS_dict' = fit_LS_model_and_find_priors(
                     s_data, DownstreamDesign(design, smooth_model), info_dict)
    /\ design_arg' = [design_arg EXCEPT !.fit_LS_model_and_find_priors =
                                          DownstreamDesign(design, smooth_model)]
    /\ pc' = "adjust"
    /\ UNCHANGED <<given, caller, err, runs, returned, data, covars, batch_col,
                   num_cols, smooth_cols, smooth_model, info_dict, design,
                   gamma_star, delta_star, bayes_data, model, safVars, saveVars>>

\* line 100
Adjust ==
    /\ pc = "adjust"
    /\ gamma_star' = find_parametric_adjustments(s_data, LS_dict, info_dict)
    /\ delta_star' = find_parametric_adjustments(s_data, LS_dict, info_dict)
    /\ pc' = "final"
    /\ UNCHANGED <<given, caller, err, runs, returned, data, covars, batch_col,
                   num_cols, smooth_cols, smooth_model, info_dict, design,
                   design_arg, LS_dict, bayes_data, model, safVars, saveVars>>

\* line 101
Final ==
    /\ pc = "final"
    /\ bayes_data' = adjust_data_final(s_data, DownstreamDesign(design, smooth_model),
                                       gamma_star, delta_star, stand_mean,
                                       var_pooled, info_dict)
    /\ design_arg' = [design_arg EXCEPT !.adjust_data_final =
                                          DownstreamDesign(design, smooth_model)]
    /\ pc' = "return"
    /\ UNCHANGED <<given, caller, err, runs, returned, data, covars, batch_col,
                   num_cols, smooth_cols, smooth_model, info_dict, design,
                   LS_dict, gamma_star, delta_star, model, safVars, saveVars>>

\* lines 103-105: the keys of the model in insertion order
ModelKeys == <<"design", "s_data", "stand_mean", "var_pooled", "B_hat",
               "grand_mean", "gamma_star", "delta_star", "n_batch">>

\* the adjusted data handed back as computed, features by samples
ReturnedDataUntransposed(bayes) == bayes

\* line 107: the harmonized data handed back to the caller
ReturnedData(bayes) == Transpose(bayes)

\* lines 103-108
Return ==
    /\ pc = "return"
    /\ model' = [keys |-> ModelKeys,
                 design |-> DownstreamDesign(design, smooth_model),
                 s_data |-> s_data, stand_mean |-> stand_mean,
                 var_pooled |-> var_pooled, B_hat |-> B_hat,
                 grand_mean |-> grand_mean, gamma_star |-> gamma_star,
                 delta_star |-> delta_star, n_batch |-> info_dict.n_batch]
    /\ bayes_data' = ReturnedData(bayes_data)
    /\ returned' = Append(returned, [model |-> model', bayes_data |-> bayes_data'])
    /\ pc' = "idle"
    /\ UNCHANGED <<given, caller, err, runs, data, covars, batch_col,
                   num_cols, smooth_cols, smooth_model, info_dict, design,
                   design_arg, LS_dict, gamma_star, delta_star, safVars, saveVars>>

(* ---------------------- saveHarmonizationModel ------------------------ *)
\* an exclusion list that misses stand_mean
do_not_save_short == {"design", "s_data", "n_batch"}

\* line 176
do_not_save == {"design", "s_data", "stand_mean", "n_batch"}

\* the model fields that are arrays (n_batch is an int and has no nbytes)
ArrayFields == {"design", "s_data", "stand_mean", "var_pooled", "B_hat",
                "grand_mean", "gamma_star", "delta_star"}

\* lines 177-181: np.save of every key that is kept, in key order
RECURSIVE SaveFields(_, _, _, _)
SaveFields(keys, m, files, stamp) ==
    IF keys = <<>> THEN [files |-> files, raised |-> ""]
    ELSE LET key == Head(keys)
         IN IF key \in do_not_save
            THEN SaveFields(Tail(keys), m, files, stamp)
            ELSE IF key \notin ArrayFields
                 THEN [files |-> files, raised |-> "AttributeError"]
                 ELSE SaveFields(Tail(keys), m,
                        [n \in DOMAIN files \cup {key \o ".npy"} |->
                           IF n = key \o ".npy"
                           THEN [stamp |-> stamp, content |-> m[key]]
                           ELSE files[n]],
                        stamp)

\* a save that writes into the folder whether or not it exists
saveOverwriting(m, fldr_name, disk, stamp) ==
    LET out == SaveFields(m.keys, m, disk[fldr_name].files, stamp)
    IN [fs |-> [disk EXCEPT ![fldr_name] = [exists |-> TRUE, files |-> out.files]],
        raised |-> out.raised]

\* lines 171-182: the file system after the call and the error it raised
saveHarmonizationModel(m, fldr_name, disk, stamp) ==
    IF disk[fldr_name].exists
    THEN [fs |-> disk, raised |-> "ValueError"]
    ELSE LET made == [disk EXCEPT ![fldr_name] = [exists |-> TRUE, files |-> << >>]]
             out == SaveFields(m.keys, m, << >>, stamp)
         IN [fs |-> [made EXCEPT ![fldr_name].files = out.files],
             raised |-> out.raised]

\* the caller saves the model of the latest run that returned
Save(fldr_name) ==
    /\ pc = "idle"
    /\ returned # <<>>
    /\ saves < MaxSaves
    /\ LET out == saveHarmonizationModel(returned[Len(returned)].model, fldr_name,
                                         fs, saves + 1)
       IN /\ fs' = out.fs
          /\ lastSave' = [fldr_name |-> fldr_name, raised |-> out.raised]
    /\ saves' = saves + 1
    /\ UNCHANGED <<given, caller, pc, err, runs, returned, learnVars, safVars>>

Next == Call \/ Prep \/ ToArray \/ Info \/ Design \/ Smooth \/ Standardize
        \/ GamSetResponse \/ GamFit \/ GamSelect \/ GamRefit \/ GamStore
        \/ StandardizeFinish \/ Priors \/ Adjust \/ Final \/ Return
        \/ (\E fldr_name \in Folders : Save(fldr_name))

Spec == Init /\ [][Next]_vars

(* ============================ properties ============================== *)
AfterSmooth == {"standardize", "gam_y", "gam_fit", "gam_select", "gam_refit",
                "gam_store", "saf_finish", "priors", "adjust", "final", "return"}
KeptFiles == {"var_pooled.npy", "B_hat.npy", "grand_mean.npy",
              "gamma_star.npy", "delta_star.npy"}
KeptFields == {"var_pooled", "B_hat", "grand_mean", "gamma_star", "delta_star"}

\* C1: a call of saveHarmonizationModel whose target folder already exists
\* raises its error and leaves the whole file system as it was: nothing is
\* created and no file changes, so the files of an earlier save survive.
C1_ExistingFolderUntouched ==
    [][(saves' = saves + 1 /\ fs[lastSave'.fldr_name].exists)
         => (fs' = fs /\ lastSave'.raised = "ValueError")]_vars

\* the second save to the same folder has failed; the first save's files,
\* all written by call 1, are there
C1_Witness ==
    /\ saves = 2
    /\ lastSave = [fldr_name |-> "m1", raised |-> "ValueError"]
    /\ DOMAIN fs["m1"].files = KeptFiles
    /\ \A n \in DOMAIN fs["m1"].files : fs["m1"].files[n].stamp = 1

\* what a step that saves into a folder not on disk must do
SaveIntoNewFolderStep ==
    (saves' = saves + 1 /\ ~fs[lastSave'.fldr_name].exists)
      => LET f == lastSave'.fldr_name
             m == returned[Len(returned)].model
         IN /\ lastSave'.raised = ""
            /\ fs'[f].exists
            /\ DOMAIN fs'[f].files = KeptFiles
            /\ \A k \in KeptFields :
                 fs'[f].files[k \o ".npy"].content = m[k]
            /\ \A g \in Folders \ {f} : fs'[g] = fs[g]

C3_OutputShapeMatchesInput ==
    \A k \in DOMAIN returned :
       /\ Shape(returned[k].bayes_data) = Shape(given.data)
       /\ \A n \in DOMAIN given.data : \A f \in DOMAIN given.data[n] :
            returned[k].bayes_data[n][f].x = given.data[n][f]

\* a run has returned for a data matrix that is not square
C3_Witness ==
    /\ returned # <<>>
    /\ NRows(given.data) = 3 /\ NCols(given.data) = 2
    /\ Shape(returned[1].bayes_data) = <<3, 2>>

\* C4: with no SITE column in the covariate table, a run of
\* harmonizationLearn ends in the lookup error (KeyError) raised by the column
\* lookup that opens the preparation of the design matrix: no batch info, no
\* design matrix and no model is ever built and nothing is returned.
C4_MissingSiteRaises ==
    "SITE" \notin Range(given.covars.columns)
      => /\ pc \in {"idle", "prep", "raised"}
         /\ (pc = "raised" => err = "KeyError")
         /\ returned = <<>>
         /\ design = <<>> /\ info_dict = NoInfo /\ model = NoModel
         /\ bayes_data = <<>>

\* a run on a table without SITE has failed
C4_Witness ==
    /\ "SITE" \notin Range(given.covars.columns)
    /\ pc = "raised" /\ err = "KeyError" /\ runs >= 1

C6_BatchInfoPartition ==
    info_dict # NoInfo
      => LET N == NRows(given.covars.values)
             lists == info_dict.batch_info
         IN /\ info_dict.n_sample = N
            /\ \A s \in 0..(N - 1) :
                 Cardinality({l \in DOMAIN lists : s \in Range(lists[l])}) = 1
            /\ \A l \in DOMAIN lists :
                 /\ Range(lists[l]) \subseteq 0..(N - 1)
                 /\ Cardinality(Range(lists[l])) = Len(lists[l])

\* batch info of three samples over two sites
C6_Witness ==
    /\ info_dict.n_batch = 2 /\ info_dict.n_sample = 3
    /\ Len(info_dict.batch_info[1]) = 2 /\ Len(info_dict.batch_info[2]) = 1

\* C7 as stated: with smoothing active, the combined matrix is the design of
\* every downstream step (standardization, prior fitting, final adjustment)
\* and of the design field of the returned model.
C7_Original ==
    (smooth_model.perform_smoothing /\ pc = "idle" /\ model # NoModel)
      => /\ design_arg.StandardizeAcrossFeatures = smooth_model.smooth_design
         /\ design_arg.fit_LS_model_and_find_priors = smooth_model.smooth_design
         /\ design_arg.adjust_data_final = smooth_model.smooth_design
         /\ model.design = smooth_model.smooth_design

\* C7 amended: with smoothing active, the combined matrix is the design the
\* Standardization Estimator computes with (the additive model's regressors,
\* the pooled variance and the standardization mean), while the Prior Fitter,
\* the Final Adjuster and the design field of the returned model get the
\* Design Matrix Builder's output, which is a different matrix.
C7_SmoothDesignInStandardizationOnly ==
    (smooth_model.perform_smoothing /\ pc \in AfterSmooth \cup {"idle"})
      => LET sd == smooth_model.smooth_design
         IN /\ sd # design
            /\ design_arg.StandardizeAcrossFeatures \in {<<>>, sd}
            /\ (pc # "standardize" => design_arg.StandardizeAcrossFeatures = sd)
            /\ saf_design \in {<<>>, sd}
            /\ gam_bs.exog \in {<<>>, sd}
            /\ var_pooled.design \in {<<>>, sd}
            /\ stand_mean.design \in {<<>>, sd}
            /\ design_arg.fit_LS_model_and_find_priors \in {<<>>, design}
            /\ design_arg.adjust_data_final \in {<<>>, design}
            /\ model.design \in {<<>>, design}
            /\ (model # NoModel =>
                  /\ var_pooled.design = sd /\ stand_mean.design = sd
                  /\ design_arg.fit_LS_model_and_find_priors = design
                  /\ design_arg.adjust_data_final = design
                  /\ model.design = design)

\* a smoothing run has returned its model
C7_Witness ==
    /\ smooth_model.perform_smoothing /\ pc = "idle" /\ model # NoModel
    /\ NCols(smooth_model.smooth_design) > NCols(model.design)
    /\ gam_bs.exog = smooth_model.smooth_design

\* a table without the column of the given name
WithoutColumn(t, name) ==
    [names |-> Flatten([k \in DOMAIN t.names |->
                          IF t.names[k] = name THEN <<>> ELSE <<t.names[k]>>]),
     cols |-> Flatten([k \in DOMAIN t.names |->
                         IF t.names[k] = name THEN <<>> ELSE <<t.cols[k]>>])]

\* C8 as stated: no step after the construction of the smoothing model
\* changes any of its fields, df_gam included.
C8_Original ==
    [][(pc \in AfterSmooth) => (smooth_model' = smooth_model)]_vars

\* what a step after the construction of the smoothing model may change
OnlyResponseWrittenStep ==
    pc \in AfterSmooth
      => /\ [smooth_model' EXCEPT !.df_gam = NoTable]
              = [smooth_model EXCEPT !.df_gam = NoTable]
         /\ WithoutColumn(smooth_model'.df_gam, "y")
              = WithoutColumn(smooth_model.df_gam, "y")

\* C8 amended: after its construction no step changes the smoothing model's
\* flag, smooth terms, smooth columns, spline basis, formula or combined
\* design matrix, nor any term column of df_gam; the only change is the
\* response column 'y' of df_gam, which the fitting loop writes.
C8_OnlyResponseColumnWritten == [][OnlyResponseWrittenStep]_vars

\* the loop has written the response of the second feature over the first's
C8_Witness ==
    /\ pc = "gam_fit" /\ i = 1
    /\ TableColumn(smooth_model.df_gam, "y") = data[2]
    /\ Len(smooth_model.df_gam.names) >= 3

AllInitial(a) == \A k \in DOMAIN a : a[k] = [weight |-> "1.0", selected_for |-> <<>>]
AllSelectedFor(a, y) == \A k \in DOMAIN a : a[k] = [weight |-> "gcv", selected_for |-> y]

\* what each step of the per-feature loop must find and leave
FitOrderStep ==
    /\ (pc' = "gam_fit" /\ pc # "gam_fit")
         => /\ pc = "gam_y" /\ i' = i
            /\ TableColumn(smooth_model'.df_gam, "y") = data[i + 1]
    /\ (pc' = "gam_select" /\ pc # "gam_select")
         => /\ pc = "gam_fit" /\ i' = i
            /\ gam_bs'.endog = data[i + 1]
            /\ Len(gam_bs'.alpha) = Len(smooth_cols)
            /\ AllInitial(gam_bs'.alpha) /\ AllInitial(res_bs'.alpha)
            /\ res_bs'.endog = data[i + 1]
            /\ gam_bs'.nfit = 1
    /\ (pc' = "gam_refit" /\ pc # "gam_refit")
         => /\ pc = "gam_select" /\ i' = i
            /\ gam_bs'.endog = data[i + 1]
            /\ AllSelectedFor(gam_bs'.alpha, data[i + 1])
            /\ gam_bs'.nfit = 1
    /\ (pc' = "gam_store" /\ pc # "gam_store")
         => /\ pc = "gam_refit" /\ i' = i
            /\ gam_bs'.nfit = 2
            /\ res_bs_optim'.endog = data[i + 1]
            /\ AllSelectedFor(res_bs_optim'.alpha, data[i + 1])
    /\ (pc = "gam_store" /\ pc' = "gam_y")
         => /\ i' = i + 1
            /\ B_hat'[i + 1].estimator = "gam"
            /\ B_hat'[i + 1].endog = data[i + 1]
            /\ Len(B_hat'[i + 1].alpha) = Len(smooth_cols)
            /\ AllSelectedFor(B_hat'[i + 1].alpha, data[i + 1])
            /\ \A f \in DOMAIN B_hat : f # i + 1 => B_hat'[f] = B_hat[f]

\* C9: in the smoothing path every feature i goes through the same steps in
\* the same order, whatever was processed before it: its values become the
\* response, a model is fitted with weight 1.0 for every smooth term, a weight
\* is selected for that response, the model is fitted a second and last time
\* with the selected weight, and column i of B_hat becomes the coefficients of
\* that second fit while the other columns stay as they were.
C9_PerFeatureFitOrder == [][FitOrderStep]_vars

\* both features of a two-feature matrix have been fitted and stored
C9_Witness ==
    /\ pc = "saf_finish" /\ i = 2 /\ smooth_model.perform_smoothing
    /\ B_hat[1].estimator = "gam" /\ B_hat[2].estimator = "gam"
    /\ B_hat[1].endog = data[1] /\ B_hat[2].endog = data[2]
    /\ data[1] # data[2]

\* the names the formula and the table must hold, from the caller's inputs:
\* x<code> for every site code, c<position> for every column that is neither
\* SITE nor smoothed
ExpectedSiteTerms ==
    LET labels == {given.covars.values[n][IndexOf(given.covars.columns, "SITE")] :
                      n \in DOMAIN given.covars.values}
    IN {"x" \o ToString(b) : b \in 0..(Cardinality(labels) - 1)}

ExpectedCovariateTerms ==
    {"c" \o ToString(k - 1) :
        k \in {j \in DOMAIN given.covars.columns :
                  given.covars.columns[j] \notin {"SITE"} \cup Range(given.smooth_terms)}}

NoDuplicates(s) == Cardinality(Range(s)) = Len(s)

\* C10: with smoothing active, the formula has exactly one linear term per
\* site indicator and one per numeric covariate that is not smoothed, none for
\* a smoothed covariate, a response y and no intercept (it ends in '- 1');
\* the per-sample table has exactly the same columns, each holding the site
\* indicator or the covariate's values.
C10_FormulaTerms ==
    (smooth_model.perform_smoothing /\ pc \in AfterSmooth)
      => LET fm == smooth_model.formula
             terms == FormulaTerms(fm)
             tbl == WithoutColumn(smooth_model.df_gam, "y")
         IN /\ NoDuplicates(terms)
            /\ Range(terms) = ExpectedSiteTerms \cup ExpectedCovariateTerms
            /\ FormulaResponse(fm) = "y"
            /\ ~FormulaHasIntercept(fm)
            /\ SubSeq(fm, Len(fm) - 3, Len(fm)) = " - 1"
            /\ tbl.names = terms
            /\ \A b \in 0..(info_dict.n_batch - 1) :
                 TableColumn(tbl, "x" \o ToString(b)) =
                    [n \in DOMAIN covars.values |->
                       IF covars.values[n][batch_col + 1] = b THEN 1 ELSE 0]
            /\ \A k \in DOMAIN given.covars.columns :
                 ("c" \o ToString(k - 1)) \in ExpectedCovariateTerms
                   => TableColumn(tbl, "c" \o ToString(k - 1)) =
                        [n \in DOMAIN given.covars.values |->
                           given.covars.values[n][k]]

\* two sites, AGE smoothed, SEX linear
C10_Witness ==
    /\ smooth_model.perform_smoothing /\ pc = "standardize"
    /\ smooth_model.formula = "y ~ x0 + x1 + c2 - 1"
    /\ given.smooth_terms = <<"AGE">>
====
